---------------------------- MODULE Spec2Model ----------------------------
(***************************************************************************)
(* Model of the stock data processor: daily rows are resampled to monthly  *)
(* OHLC rows, SMA/EMA indicators are attached per ticker, and one CSV file *)
(* per ticker is written.                                                  *)
(*                                                                         *)
(* Prices are floats in the program.  They are modelled as exact rationals *)
(* <<numerator, denominator>> in lowest terms with a positive denominator, *)
(* so that equal values are equal tuples; NaN is <<0, 0>>.  Floating-point *)
(* rounding is modelled only in SpecFloat (calculate_ema with results      *)
(* rounded to Precision bits); elsewhere arithmetic is exact.  (The LETs   *)
(* of the arithmetic operators only name their arguments so that each is   *)
(* evaluated once.)                                                        *)
(***************************************************************************)
EXTENDS Integers, Sequences, FiniteSets, TLC

VARIABLES
    series,           \* averaging engine: the Series passed to calculate_sma/_ema
    window,           \* averaging engine: the window argument
    sma_result,       \* outcome of calculate_sma(series, window), or NotCalled
    ema_result,       \* outcome of calculate_ema(series, window), or NotCalled
    csv_file,         \* the input CSV on disk: [exists, columns_ok, rows]
    pc,               \* position of main: the step about to run
    exit_status,      \* process exit status once main has ended, else NoExit
    df_daily,         \* main: frame returned by load_stock_data
    df_monthly,       \* main: frame returned by aggregate_monthly_ohlc
    df_monthly_final, \* main: concatenated frames with indicator columns
    wi,               \* partition_and_write_results: position in tickers
    created_files,    \* partition_and_write_results: paths written so far
    out_dir,          \* the output directory: ticker -> file or NoFile
    warnings,         \* tickers for which "No data found" was printed
    stage_log,        \* the steps of main begun so far, with their outcome
    frame,            \* annotator: the frame given to add_technical_indicators
    annotated,        \* annotator: the frame it returned
    ann_pc            \* annotator: what has been done with the frame

avgVars == <<series, window, sma_result, ema_result>>
mainVars == <<csv_file, pc, exit_status, df_daily, df_monthly, df_monthly_final,
              wi, created_files, out_dir, warnings, stage_log>>

annVars == <<frame, annotated, ann_pc>>

vars == <<series, window, sma_result, ema_result,
          csv_file, pc, exit_status, df_daily, df_monthly, df_monthly_final,
          wi, created_files, out_dir, warnings, stage_log,
          frame, annotated, ann_pc>>

-----------------------------------------------------------------------------
(* Bounds of the model *)

MaxLen == 4          \* longest Series given to the averaging engine
MaxWindow == 3       \* largest positive window given to the averaging engine
MaxMonth == 3        \* calendar months the daily rows may fall in
MaxRows == 3         \* most daily rows in the input CSV
MaxFrame == 11       \* most monthly rows of the frame given to the annotator
MaxPermLen == 4      \* longest frame whose rows are put in every order
MaxWriteRows == 2    \* most rows of a frame given to write_ticker_to_csv directly
Precision == 3       \* significant bits of the rounded floats (float64 has 53)

PriceVals == {<<1, 1>>, <<2, 1>>, <<5, 1>>}
NonPositiveWindows == {-2, -1, 0}
Windows == NonPositiveWindows \cup (1..MaxWindow)

RECURSIVE SeqsUpTo(_, _)
SeqsUpTo(S, n) ==
    IF n = 0 THEN {<<>>}
    ELSE LET shorter == SeqsUpTo(S, n - 1)
         IN  shorter \cup {Append(s, x) : s \in {t \in shorter : Len(t) = n - 1}, x \in S}

-----------------------------------------------------------------------------
(* Exact arithmetic standing for float arithmetic *)

NaN == <<0, 0>>
NotCalled == [kind |-> "not_called"]

Abs(x) == IF x < 0 THEN -x ELSE x
Min(a, b) == IF a <= b THEN a ELSE b

RECURSIVE GCD(_, _)
GCD(a, b) == IF b = 0 THEN a ELSE GCD(b, a % b)

\* The fraction n/d in lowest terms
Rat(n, d) ==
    LET num == n
        den == d
        g == GCD(Abs(num), Abs(den))
        s == IF den < 0 THEN -1 ELSE 1
    IN  <<(s * num) \div g, (s * den) \div g>>

OfInt(n) == <<n, 1>>

\* A function on 1..n as an explicit sequence (its elements computed once)
AsSeq(f) == SubSeq(f, 1, Len(f))
RAdd(a, b) == LET x == a y == b IN Rat(x[1] * y[2] + y[1] * x[2], x[2] * y[2])
RSub(a, b) == LET x == a y == b IN Rat(x[1] * y[2] - y[1] * x[2], x[2] * y[2])
RMul(a, b) == LET x == a y == b IN Rat(x[1] * y[1], x[2] * y[2])
RDiv(a, k) == LET x == a IN Rat(x[1], x[2] * k)
RLeq(a, b) == LET x == a y == b IN x[1] * y[2] <= y[1] * x[2]

-----------------------------------------------------------------------------
(* pandas: Series.rolling(window, min_periods).mean()                       *)

\* Rolling.__init__ validation: the outcome of constructing the window.
RollingValidate(win, min_periods) ==
    IF min_periods > win \/ win < 0 THEN "ValueError" ELSE "ok"

\* Sliding sums of the windows ending at positions 1..n: at each position
\* the new value is added and the value leaving the window is removed.
RECURSIVE RollSums(_, _, _)
RollSums(s, win, n) ==
    IF n = 0 THEN <<>>
    ELSE LET sums == RollSums(s, win, n - 1)
             added == RAdd(IF n = 1 THEN OfInt(0) ELSE sums[n - 1], s[n])
         IN  Append(sums, IF n > win THEN RSub(added, s[n - win]) ELSE added)

\* Number of observations in the window ending at position i.
RollCount(win, i) == Min(i, win)

RollingMean(s, win, min_periods) ==
    LET sums == RollSums(s, win, Len(s))
    IN  AsSeq([i \in 1..Len(s) |->
                  IF RollCount(win, i) >= min_periods
                  THEN RDiv(sums[i], RollCount(win, i))
                  ELSE NaN])

-----------------------------------------------------------------------------
(* technical_indicators.py *)

\* Variant: rolling() left at its default min_periods (= window), which
\* leaves the first window-1 positions undefined.
calculate_sma_default_min_periods(s, win) ==
    IF RollingValidate(win, 1) # "ok"
    THEN [kind |-> RollingValidate(win, 1)]
    ELSE [kind |-> "ok", val |-> RollingMean(s, win, win)]

calculate_sma(s, win) ==
    IF RollingValidate(win, 1) # "ok"
    THEN [kind |-> RollingValidate(win, 1)]
    ELSE [kind |-> "ok", val |-> RollingMean(s, win, 1)]

\* alpha = 2.0 / (window + 1.0)
Alpha(win) == Rat(2, win + 1)

\* Variant: the conventional "EMA from the first value" (no SMA seed).
EmaStepFromFirstValue(s, win, sma_initial, ema, i) ==
    IF i = 1 THEN s[i]
    ELSE RAdd(RMul(RSub(s[i], ema[i - 1]), Alpha(win)), ema[i - 1])

\* Variant: positions before the seed are left undefined, as by an
\* exponential average that waits for a full window.
EmaStepUndefinedUntilSeed(s, win, sma_initial, ema, i) ==
    IF i - 1 < win - 1 THEN NaN
    ELSE IF i - 1 = win - 1 THEN sma_initial[i]
    ELSE RAdd(RMul(RSub(s[i], ema[i - 1]), Alpha(win)), ema[i - 1])

\* One pass of the loop body for position i (1-based; the code's index is
\* i - 1), given the values already stored in ema.
EmaStep(s, win, sma_initial, ema, i) ==
    IF i - 1 < win - 1 THEN s[i]
    ELSE IF i - 1 = win - 1 THEN sma_initial[i]
    ELSE RAdd(RMul(RSub(s[i], ema[i - 1]), Alpha(win)), ema[i - 1])

RECURSIVE EmaLoop(_, _, _, _)
EmaLoop(s, win, sma_initial, n) ==
    IF n = 0 THEN <<>>
    ELSE LET ema == EmaLoop(s, win, sma_initial, n - 1)
         IN  Append(ema, EmaStep(s, win, sma_initial, ema, n))

calculate_ema(s, win) ==
    IF win + 1 = 0 THEN [kind |-> "ZeroDivisionError"]
    ELSE IF RollingValidate(win, 1) # "ok"
    THEN [kind |-> RollingValidate(win, 1)]
    ELSE [kind |-> "ok",
          val |-> EmaLoop(s, win, RollingMean(s, win, 1), Len(s))]

\* Row r with the columns of ind added (or overwritten when present).
WithColumns(r, ind) ==
    [f \in (DOMAIN r) \cup (DOMAIN ind) |-> IF f \in DOMAIN ind THEN ind[f] ELSE r[f]]

\* Dates are <<month, day>>; month counts calendar months from January 2022.
DateLt(a, b) == a[1] < b[1] \/ (a[1] = b[1] /\ a[2] < b[2])

\* Variant: the frame is used in the order given.
sort_index_omitted(df) == df

\* DataFrame.sort_index() on the date index: insertion of each row after
\* the rows that are not later than it.
RECURSIVE sort_index(_)
sort_index(df) ==
    IF df = <<>> THEN <<>>
    ELSE LET rest == sort_index(SubSeq(df, 1, Len(df) - 1))
             r == df[Len(df)]
             k == Cardinality({i \in 1..Len(rest) : ~DateLt(r.date, rest[i].date)})
         IN  SubSeq(rest, 1, k) \o <<r>> \o SubSeq(rest, k + 1, Len(rest))

SMA_SHORT == 10
SMA_LONG == 20
EMA_SHORT == 10
EMA_LONG == 20

CloseOf(df) == AsSeq([i \in 1..Len(df) |-> df[i].close])

add_technical_indicators(df_in) ==
    LET df == sort_index(df_in)
        close == CloseOf(df)
        sma10 == calculate_sma(close, SMA_SHORT).val
        sma20 == calculate_sma(close, SMA_LONG).val
        ema10 == calculate_ema(close, EMA_SHORT).val
        ema20 == calculate_ema(close, EMA_LONG).val
    IN  [i \in 1..Len(df) |->
            WithColumns(df[i], [SMA_10 |-> sma10[i], SMA_20 |-> sma20[i],
                                EMA_10 |-> ema10[i], EMA_20 |-> ema20[i]])]

-----------------------------------------------------------------------------
(* The calendar and the daily rows *)

DaysInMonth(m) ==
    LET k == ((m - 1) % 12) + 1
    IN  CASE k = 2 -> 28
          [] k \in {4, 6, 9, 11} -> 30
          [] OTHER -> 31

\* The 'ME' label of a month: its last calendar day.
MonthEnd(m) == <<m, DaysInMonth(m)>>
MonthOf(date) == date[1]

\* process_stock_data.py: the program expects ten tickers; the model keeps
\* the first two of the list.
EXPECTED_TICKERS == <<"AAPL", "AMD">>

Tickers == {"AAPL", "AMD"}
TickerRank(tk) == IF tk = "AAPL" THEN 1 ELSE 2

\* Days of a month on which the model's daily rows fall: an early trading
\* day and the last calendar day.
TradingDays(m) == {3, DaysInMonth(m)}

\* Two price patterns, both with low <= open, close <= high, chosen so that
\* first/last/max/min/sum of any two rows are told apart.
PricePatterns ==
    { [open |-> 3, high |-> 6, low |-> 2, close |-> 4, adjclose |-> 5, volume |-> 10],
      [open |-> 4, high |-> 5, low |-> 1, close |-> 2, adjclose |-> 1, volume |-> 7] }

DailyRow(tk, date, p) ==
    [ticker |-> tk, date |-> date, open |-> OfInt(p.open), high |-> OfInt(p.high),
     low |-> OfInt(p.low), close |-> OfInt(p.close), adjclose |-> OfInt(p.adjclose),
     volume |-> p.volume]

Dates == UNION {{<<m, d>> : d \in TradingDays(m)} : m \in 1..MaxMonth}

DailyRows == {DailyRow(tk, date, p) : tk \in Tickers, date \in Dates, p \in PricePatterns}

-----------------------------------------------------------------------------
(* data_loader.py *)

RowKeyLeq(a, b) ==
    \/ TickerRank(a.ticker) < TickerRank(b.ticker)
    \/ a.ticker = b.ticker /\ ~DateLt(b.date, a.date)

\* df.sort_values(['ticker', 'date']) of the rows read from the file
RECURSIVE sort_values(_)
sort_values(rows) ==
    IF rows = {} THEN <<>>
    ELSE LET first == CHOOSE r \in rows : \A q \in rows : RowKeyLeq(r, q)
         IN  <<first>> \o sort_values(rows \ {first})

load_stock_data(file) ==
    IF ~file.exists THEN [kind |-> "FileNotFoundError"]
    ELSE IF ~file.columns_ok THEN [kind |-> "ValueError"]
    ELSE [kind |-> "ok", val |-> sort_values(file.rows)]

TickersIn(df) == {df[i].ticker : i \in 1..Len(df)}

\* Variant: missing tickers are tolerated.
validate_tickers_lenient(df, expected_tickers) == [kind |-> "ok", val |-> TRUE]

validate_tickers(df, expected_tickers) ==
    LET unique_tickers == TickersIn(df)
        missing_tickers == {i \in 1..Len(expected_tickers) :
                               expected_tickers[i] \notin unique_tickers}
    IN  IF missing_tickers # {} THEN [kind |-> "ValueError"]
        ELSE [kind |-> "ok", val |-> TRUE]

-----------------------------------------------------------------------------
(* monthly_aggregator.py *)

SeqMax(s) == CHOOSE x \in {s[i] : i \in 1..Len(s)} : \A i \in 1..Len(s) : RLeq(s[i], x)
SeqMin(s) == CHOOSE x \in {s[i] : i \in 1..Len(s)} : \A i \in 1..Len(s) : RLeq(x, s[i])

RECURSIVE SeqSum(_)
SeqSum(s) == IF s = <<>> THEN 0 ELSE Head(s) + SeqSum(Tail(s))

Column(rows, c) == AsSeq([i \in 1..Len(rows) |-> rows[i][c]])

\* The aggregation functions of .agg({...}) on the rows of one bin, in
\* frame order; an empty bin gives NaN, and 0 for 'sum'.
AggFirst(rows, c) == IF rows = <<>> THEN NaN ELSE rows[1][c]
AggLast(rows, c) == IF rows = <<>> THEN NaN ELSE rows[Len(rows)][c]
AggMax(rows, c) == IF rows = <<>> THEN NaN ELSE SeqMax(Column(rows, c))
AggMin(rows, c) == IF rows = <<>> THEN NaN ELSE SeqMin(Column(rows, c))
\* Variant: 'volume' aggregated with 'last' like the closing columns.
AggSumAsLast(rows, c) == IF rows = <<>> THEN 0 ELSE rows[Len(rows)][c]
AggSum(rows, c) == SeqSum(Column(rows, c))

\* Variant: 'open' aggregated with 'last'.
AggBinOpenLast(tk, m, rows) ==
    [ticker |-> tk, date |-> MonthEnd(m),
     open |-> AggLast(rows, "open"), high |-> AggMax(rows, "high"),
     low |-> AggMin(rows, "low"), close |-> AggLast(rows, "close"),
     adjclose |-> AggLast(rows, "adjclose"), volume |-> AggSum(rows, "volume")]

\* Variant: the row is labelled with the date of the month's last daily row.
AggBinLastTradingDay(tk, m, rows) ==
    [ticker |-> tk, date |-> IF rows = <<>> THEN MonthEnd(m) ELSE rows[Len(rows)].date,
     open |-> AggFirst(rows, "open"), high |-> AggMax(rows, "high"),
     low |-> AggMin(rows, "low"), close |-> AggLast(rows, "close"),
     adjclose |-> AggLast(rows, "adjclose"), volume |-> AggSum(rows, "volume")]

\* One row of the resampled frame: ticker tk, month m, from the bin's rows.
AggBin(tk, m, rows) ==
    [ticker |-> tk, date |-> MonthEnd(m),
     open |-> AggFirst(rows, "open"), high |-> AggMax(rows, "high"),
     low |-> AggMin(rows, "low"), close |-> AggLast(rows, "close"),
     adjclose |-> AggLast(rows, "adjclose"), volume |-> AggSum(rows, "volume")]

RowsOfTicker(df, tk) == SelectSeq(df, LAMBDA r : r.ticker = tk)
RowsOfMonth(df, m) == SelectSeq(df, LAMBDA r : MonthOf(r.date) = m)

\* Variant: bins only for the months in which the ticker has rows, as a
\* groupby on the month would give.
ResampleTickerTradedMonths(df, tk) ==
    LET rows == RowsOfTicker(df, tk)
        months == {MonthOf(rows[i].date) : i \in 1..Len(rows)}
        lo == CHOOSE m \in months : \A k \in months : m <= k
        hi == CHOOSE m \in months : \A k \in months : k <= m
        traded == SelectSeq(AsSeq([j \in 1..(hi - lo + 1) |-> lo + j - 1]),
                            LAMBDA m : m \in months)
    IN  AsSeq([j \in 1..Len(traded) |->
                  AggBin(tk, traded[j], RowsOfMonth(rows, traded[j]))])

\* resample('ME') of one ticker's rows: one bin for every month from the
\* month of its first date to the month of its last date.
ResampleTicker(df, tk) ==
    LET rows == RowsOfTicker(df, tk)
        months == {MonthOf(rows[i].date) : i \in 1..Len(rows)}
        lo == CHOOSE m \in months : \A k \in months : m <= k
        hi == CHOOSE m \in months : \A k \in months : k <= m
    IN  AsSeq([j \in 1..(hi - lo + 1) |->
                  AggBin(tk, lo + j - 1, RowsOfMonth(rows, lo + j - 1))])

\* df.groupby('ticker').resample('ME').agg({...}): groups in ticker order
RECURSIVE GroupbyResample(_, _)
GroupbyResample(df, k) ==
    IF k = 0 THEN <<>>
    ELSE LET tk == CHOOSE x \in Tickers : TickerRank(x) = k
         IN  GroupbyResample(df, k - 1) \o
             (IF tk \in TickersIn(df) THEN ResampleTicker(df, tk) ELSE <<>>)

IsNaN(x) == x = NaN

\* Variant: the filter left out.
dropna_omitted(df) == df

\* monthly_data.dropna(subset=['open', 'high', 'low', 'close'])
dropna(df) ==
    SelectSeq(df, LAMBDA r : ~(IsNaN(r.open) \/ IsNaN(r.high) \/ IsNaN(r.low) \/ IsNaN(r.close)))

aggregate_monthly_ohlc(df) == dropna(GroupbyResample(df, Cardinality(Tickers)))

-----------------------------------------------------------------------------
(* file_writer.py *)

NoFile == [name |-> <<>>]

output_columns ==
    <<"date", "open", "high", "low", "close", "adjclose", "volume",
      "SMA_10", "SMA_20", "EMA_10", "EMA_20">>

\* Variant: the frame is written with all the columns it has.
write_ticker_to_csv_unfiltered(df, ticker) ==
    LET all_columns == output_columns \o <<"ticker">>
        available_columns == SelectSeq(all_columns, LAMBDA c : c \in DOMAIN df[1])
    IN  [name |-> <<"result_", ticker, ".csv">>,
         columns |-> available_columns,
         rows |-> [i \in 1..Len(df) |-> df[i]],
         complete |-> TRUE]

\* The file write_ticker_to_csv leaves in the output directory when to_csv
\* succeeds: df is not empty here (partition_and_write_results skips empty
\* frames), so its columns are those of its rows.
write_ticker_to_csv(df, ticker) ==
    LET available_columns == SelectSeq(output_columns, LAMBDA c : c \in DOMAIN df[1])
        kept == {available_columns[i] : i \in 1..Len(available_columns)}
    IN  [name |-> <<"result_", ticker, ".csv">>,
         columns |-> available_columns,
         rows |-> [i \in 1..Len(df) |-> [c \in kept |-> df[i][c]]],
         complete |-> TRUE]

\* A file cut short by a failing to_csv.
PartialFile(ticker) ==
    [name |-> <<"result_", ticker, ".csv">>, columns |-> <<>>, rows |-> <<>>,
     complete |-> FALSE]

-----------------------------------------------------------------------------
(* process_stock_data.py: main *)

\* exit_status while the process is still running (no status yet)
NoExit == 0 - 1
NoFrame == <<>>

Logged(stage, outcome) == Append(stage_log, [stage |-> stage, outcome |-> outcome])

\* sys.exit(1) in an except branch
Exit1 == pc' = "exited" /\ exit_status' = 1

\* Variant: the indicators are computed once over the rows of all tickers
\* and the annotated rows are split by ticker afterwards.
RECURSIVE IndicatorFramesPooled(_, _)
IndicatorFramesPooled(monthly, k) ==
    IF k = 0 THEN <<>>
    ELSE LET pooled == AsSeq(add_technical_indicators(monthly))
             ticker_data == SelectSeq(pooled, LAMBDA r : r.ticker = EXPECTED_TICKERS[k])
         IN  IndicatorFramesPooled(monthly, k - 1) \o
             (IF ticker_data # <<>> THEN <<ticker_data>> ELSE <<>>)

\* Step 4: the loop over EXPECTED_TICKERS building monthly_with_indicators
RECURSIVE IndicatorFrames(_, _)
IndicatorFrames(monthly, k) ==
    IF k = 0 THEN <<>>
    ELSE LET ticker_data == RowsOfTicker(monthly, EXPECTED_TICKERS[k])
         IN  IndicatorFrames(monthly, k - 1) \o
             (IF ticker_data # <<>> THEN <<add_technical_indicators(ticker_data)>> ELSE <<>>)

RECURSIVE concat(_)
concat(frames) == IF frames = <<>> THEN <<>> ELSE Head(frames) \o concat(Tail(frames))

\* The environment prepares the input file before main runs.
WriteRow ==
    /\ pc = "input"
    /\ csv_file.exists /\ csv_file.columns_ok
    /\ Cardinality(csv_file.rows) < MaxRows
    /\ \E r \in DailyRows :
         /\ \A q \in csv_file.rows : ~(q.ticker = r.ticker /\ q.date = r.date)
         /\ csv_file' = [csv_file EXCEPT !.rows = @ \cup {r}]
    /\ UNCHANGED <<avgVars, annVars, pc, exit_status, df_daily, df_monthly, df_monthly_final,
                   wi, created_files, out_dir, warnings, stage_log>>

RemoveFile ==
    /\ pc = "input"
    /\ csv_file.exists /\ csv_file.columns_ok /\ csv_file.rows = {}
    /\ csv_file' = [csv_file EXCEPT !.exists = FALSE]
    /\ UNCHANGED <<avgVars, annVars, pc, exit_status, df_daily, df_monthly, df_monthly_final,
                   wi, created_files, out_dir, warnings, stage_log>>

RemoveColumn ==
    /\ pc = "input"
    /\ csv_file.exists /\ csv_file.columns_ok /\ csv_file.rows = {}
    /\ csv_file' = [csv_file EXCEPT !.columns_ok = FALSE]
    /\ UNCHANGED <<avgVars, annVars, pc, exit_status, df_daily, df_monthly, df_monthly_final,
                   wi, created_files, out_dir, warnings, stage_log>>

RunMain ==
    /\ pc = "input"
    /\ pc' = "load"
    /\ UNCHANGED <<avgVars, annVars, csv_file, exit_status, df_daily, df_monthly,
                   df_monthly_final, wi, created_files, out_dir, warnings, stage_log>>

Step1Load ==
    /\ pc = "load"
    /\ LET res == load_stock_data(csv_file)
       IN  IF res.kind = "ok"
           THEN /\ df_daily' = res.val
                /\ pc' = "validate"
                /\ stage_log' = Logged("load", "ok")
                /\ UNCHANGED exit_status
           ELSE /\ Exit1
                /\ stage_log' = Logged("load", "error")
                /\ UNCHANGED df_daily
    /\ UNCHANGED <<avgVars, annVars, csv_file, df_monthly, df_monthly_final, wi,
                   created_files, out_dir, warnings>>

\* Variant: the except branch of step 2 only prints and the run goes on.
Step2ValidateNoExit ==
    /\ pc = "validate"
    /\ LET res == validate_tickers(df_daily, EXPECTED_TICKERS)
       IN  /\ pc' = "aggregate"
           /\ stage_log' = Logged("validate", IF res.kind = "ok" THEN "ok" ELSE "error")
           /\ UNCHANGED exit_status
    /\ UNCHANGED <<avgVars, annVars, csv_file, df_daily, df_monthly, df_monthly_final, wi,
                   created_files, out_dir, warnings>>

Step2Validate ==
    /\ pc = "validate"
    /\ LET res == validate_tickers(df_daily, EXPECTED_TICKERS)
       IN  IF res.kind = "ok"
           THEN /\ pc' = "aggregate"
                /\ stage_log' = Logged("validate", "ok")
                /\ UNCHANGED exit_status
           ELSE /\ Exit1
                /\ stage_log' = Logged("validate", "error")
    /\ UNCHANGED <<avgVars, annVars, csv_file, df_daily, df_monthly, df_monthly_final, wi,
                   created_files, out_dir, warnings>>

Step3Aggregate ==
    /\ pc = "aggregate"
    /\ df_monthly' = aggregate_monthly_ohlc(df_daily)
    /\ pc' = "indicators"
    /\ stage_log' = Logged("aggregate", "ok")
    /\ UNCHANGED <<avgVars, annVars, csv_file, exit_status, df_daily, df_monthly_final, wi,
                   created_files, out_dir, warnings>>

\* An exception raised inside aggregate_monthly_ohlc (for instance
\* MemoryError) reaches the except branch of step 3.
Step3AggregateRaises ==
    /\ pc = "aggregate"
    /\ Exit1
    /\ stage_log' = Logged("aggregate", "error")
    /\ UNCHANGED <<avgVars, annVars, csv_file, df_daily, df_monthly, df_monthly_final, wi,
                   created_files, out_dir, warnings>>

Step4Indicators ==
    /\ pc = "indicators"
    /\ LET monthly_with_indicators == IndicatorFrames(df_monthly, Len(EXPECTED_TICKERS))
       IN  IF monthly_with_indicators # <<>>
           THEN /\ df_monthly_final' = concat(monthly_with_indicators)
                /\ pc' = "write"
                /\ stage_log' = Logged("indicators", "ok")
                /\ UNCHANGED exit_status
           ELSE \* pd.concat of an empty list raises ValueError
                /\ Exit1
                /\ stage_log' = Logged("indicators", "error")
                /\ UNCHANGED df_monthly_final
    /\ UNCHANGED <<avgVars, annVars, csv_file, df_daily, df_monthly, wi, created_files,
                   out_dir, warnings>>

Step4IndicatorsRaises ==
    /\ pc = "indicators"
    /\ Exit1
    /\ stage_log' = Logged("indicators", "error")
    /\ UNCHANGED <<avgVars, annVars, csv_file, df_daily, df_monthly, df_monthly_final, wi,
                   created_files, out_dir, warnings>>

\* Step 5 calls partition_and_write_results(df_monthly_final, EXPECTED_TICKERS)
Step5Begin ==
    /\ pc = "write"
    /\ pc' = "partition"
    /\ created_files' = <<>>
    /\ wi' = 1
    /\ stage_log' = Logged("write", "running")
    /\ UNCHANGED <<avgVars, annVars, csv_file, exit_status, df_daily, df_monthly,
                   df_monthly_final, out_dir, warnings>>

\* Variant: the frame is written whole, without the filter on ticker.
PartitionTickerNoFilter ==
    /\ pc = "partition"
    /\ wi <= Len(EXPECTED_TICKERS)
    /\ LET ticker == EXPECTED_TICKERS[wi]
       IN  /\ out_dir' = [out_dir EXCEPT ![ticker] = write_ticker_to_csv(df_monthly_final, ticker)]
           /\ created_files' = Append(created_files, <<"result_", ticker, ".csv">>)
           /\ UNCHANGED warnings
    /\ wi' = wi + 1
    /\ UNCHANGED <<avgVars, annVars, csv_file, pc, exit_status, df_daily, df_monthly,
                   df_monthly_final, stage_log>>

\* One pass of the loop of partition_and_write_results
PartitionTicker ==
    /\ pc = "partition"
    /\ wi <= Len(EXPECTED_TICKERS)
    /\ LET ticker == EXPECTED_TICKERS[wi]
           ticker_data == RowsOfTicker(df_monthly_final, ticker)
       IN  IF ticker_data = <<>>
           THEN /\ warnings' = warnings \cup {ticker}
                /\ UNCHANGED <<out_dir, created_files>>
           ELSE /\ out_dir' = [out_dir EXCEPT ![ticker] = write_ticker_to_csv(ticker_data, ticker)]
                /\ created_files' = Append(created_files, <<"result_", ticker, ".csv">>)
                /\ UNCHANGED warnings
    /\ wi' = wi + 1
    /\ UNCHANGED <<avgVars, annVars, csv_file, pc, exit_status, df_daily, df_monthly,
                   df_monthly_final, stage_log>>

FinishLog(outcome) ==
    [stage_log EXCEPT ![Len(stage_log)] = [stage |-> "write", outcome |-> outcome]]

\* Variant: the files written so far are removed when a write fails.
PartitionWriteRaisesRollback ==
    /\ pc = "partition"
    /\ wi <= Len(EXPECTED_TICKERS)
    /\ RowsOfTicker(df_monthly_final, EXPECTED_TICKERS[wi]) # <<>>
    /\ out_dir' = [tk \in Tickers |-> NoFile]
    /\ Exit1
    /\ stage_log' = FinishLog("error")
    /\ UNCHANGED <<avgVars, annVars, csv_file, df_daily, df_monthly, df_monthly_final, wi,
                   created_files, warnings>>

\* write_ticker_to_csv raises (mkdir or to_csv fails): the exception leaves
\* partition_and_write_results and reaches the except branch of step 5.  The
\* file being written is either not created or cut short.
PartitionWriteRaises ==
    /\ pc = "partition"
    /\ wi <= Len(EXPECTED_TICKERS)
    /\ LET ticker == EXPECTED_TICKERS[wi]
       IN  /\ RowsOfTicker(df_monthly_final, ticker) # <<>>
           /\ \/ UNCHANGED out_dir
              \/ out_dir' = [out_dir EXCEPT ![ticker] = PartialFile(ticker)]
    /\ Exit1
    /\ stage_log' = FinishLog("error")
    /\ UNCHANGED <<avgVars, annVars, csv_file, df_daily, df_monthly, df_monthly_final, wi,
                   created_files, warnings>>

\* The loop is over; the summary reads every created file back.
Step5Summary ==
    /\ pc = "partition"
    /\ wi > Len(EXPECTED_TICKERS)
    /\ pc' = "done"
    /\ exit_status' = 0
    /\ stage_log' = FinishLog("ok")
    /\ UNCHANGED <<avgVars, annVars, csv_file, df_daily, df_monthly, df_monthly_final, wi,
                   created_files, out_dir, warnings>>

Step5SummaryRaises ==
    /\ pc = "partition"
    /\ wi > Len(EXPECTED_TICKERS)
    /\ Exit1
    /\ stage_log' = FinishLog("error")
    /\ UNCHANGED <<avgVars, annVars, csv_file, df_daily, df_monthly, df_monthly_final, wi,
                   created_files, out_dir, warnings>>

AvgIdle ==
    /\ series = <<>>
    /\ window = 1
    /\ sma_result = NotCalled
    /\ ema_result = NotCalled

MainIdle ==
    /\ csv_file = [exists |-> TRUE, columns_ok |-> TRUE, rows |-> {}]
    /\ pc = "idle"
    /\ exit_status = NoExit
    /\ df_daily = NoFrame
    /\ df_monthly = NoFrame
    /\ df_monthly_final = NoFrame
    /\ wi = 0
    /\ created_files = <<>>
    /\ out_dir = [tk \in Tickers |-> NoFile]
    /\ warnings = {}
    /\ stage_log = <<>>

AnnIdle ==
    /\ frame = NoFrame
    /\ annotated = NoFrame
    /\ ann_pc = "idle"

Init ==
    /\ AvgIdle
    /\ AnnIdle
    /\ csv_file = [exists |-> TRUE, columns_ok |-> TRUE, rows |-> {}]
    /\ pc = "input"
    /\ exit_status = NoExit
    /\ df_daily = NoFrame
    /\ df_monthly = NoFrame
    /\ df_monthly_final = NoFrame
    /\ wi = 0
    /\ created_files = <<>>
    /\ out_dir = [tk \in Tickers |-> NoFile]
    /\ warnings = {}
    /\ stage_log = <<>>

Next ==
    \/ WriteRow \/ RemoveFile \/ RemoveColumn \/ RunMain
    \/ Step1Load \/ Step2Validate
    \/ Step3Aggregate \/ Step3AggregateRaises
    \/ Step4Indicators \/ Step4IndicatorsRaises
    \/ Step5Begin \/ PartitionTicker \/ PartitionWriteRaises
    \/ Step5Summary \/ Step5SummaryRaises

Spec == Init /\ [][Next]_vars

-----------------------------------------------------------------------------
(* add_technical_indicators called directly on one ticker's monthly frame *)

CloseVals == {<<1, 1>>, <<2, 1>>}

StaleIndicators ==
    [SMA_10 |-> OfInt(0), SMA_20 |-> NaN, EMA_10 |-> OfInt(7), EMA_20 |-> NaN]

\* The orders a frame of n rows is put in: every order for a short frame;
\* the reverse order or a swap of the last two rows for a longer one.
Reorderings(n) ==
    IF n <= MaxPermLen THEN Permutations(1..n)
    ELSE {[i \in 1..n |-> n + 1 - i],
          [i \in 1..n |-> IF i = n - 1 THEN n ELSE IF i = n THEN n - 1 ELSE i]}

AnnInit ==
    /\ AvgIdle
    /\ MainIdle
    /\ frame = NoFrame
    /\ annotated = NoFrame
    /\ ann_pc = "build"

\* The caller appends the row of the next month.
AppendMonth ==
    /\ ann_pc = "build"
    /\ Len(frame) < MaxFrame
    /\ \E c \in CloseVals :
         frame' = Append(frame, [date |-> MonthEnd(Len(frame) + 1), close |-> c])
    /\ UNCHANGED <<avgVars, mainVars, annotated, ann_pc>>

\* The caller hands the rows over in another order.
Reorder ==
    /\ ann_pc = "build"
    /\ \E p \in Reorderings(Len(frame)) :
         /\ frame' = [i \in 1..Len(frame) |-> frame[p[i]]]
         /\ frame' # frame
    /\ ann_pc' = "reordered"
    /\ UNCHANGED <<avgVars, mainVars, annotated>>

\* The frame already carries indicator columns with stale values.
StaleColumns ==
    /\ ann_pc = "reordered"
    /\ Len(frame) <= MaxPermLen
    /\ frame' = [i \in 1..Len(frame) |-> WithColumns(frame[i], StaleIndicators)]
    /\ ann_pc' = "stale"
    /\ UNCHANGED <<avgVars, mainVars, annotated>>

Annotate ==
    /\ ann_pc \in {"build", "reordered", "stale"}
    /\ annotated' = add_technical_indicators(frame)
    /\ ann_pc' = "annotated"
    /\ UNCHANGED <<avgVars, mainVars, frame>>

\* The result is annotated again.
Reannotate ==
    /\ ann_pc = "annotated"
    /\ frame' = annotated
    /\ annotated' = add_technical_indicators(annotated)
    /\ ann_pc' = "reannotated"
    /\ UNCHANGED <<avgVars, mainVars>>

AnnNext == AppendMonth \/ Reorder \/ StaleColumns \/ Annotate \/ Reannotate

SpecAnnotate == AnnInit /\ [][AnnNext]_vars

-----------------------------------------------------------------------------
(* calculate_ema in rounded arithmetic.  The Series holds binary floating-  *)
(* point numbers and every operation of the loop rounds its result to the  *)
(* nearest representable number, ties to even (IEEE 754).  The numbers     *)
(* here have Precision significant bits and an unbounded exponent.         *)

RECURSIVE Pow2(_)
Pow2(k) == IF k = 0 THEN 1 ELSE 2 * Pow2(k - 1)

Exponents == (0 - 8)..8

\* The representable number nearest to the rational x
Fl(x) ==
    LET v == x
        n == Abs(v[1])
        d == v[2]
        sgn == IF v[1] < 0 THEN 0 - 1 ELSE 1
        Num(e) == IF e >= 0 THEN n ELSE n * Pow2(0 - e)
        Den(e) == IF e >= 0 THEN d * Pow2(e) ELSE d
        e == CHOOSE k \in Exponents :
                /\ Pow2(Precision - 1) * Den(k) <= Num(k)
                /\ Num(k) < Pow2(Precision) * Den(k)
        q == Num(e) \div Den(e)
        r == Num(e) % Den(e)
        m == IF 2 * r < Den(e) THEN q
             ELSE IF 2 * r > Den(e) THEN q + 1
             ELSE IF q % 2 = 0 THEN q ELSE q + 1
    IN  IF v[1] = 0 THEN v
        ELSE IF e >= 0 THEN Rat(sgn * m * Pow2(e), 1)
        ELSE Rat(sgn * m, Pow2(0 - e))

FAdd(a, b) == Fl(RAdd(a, b))
FSub(a, b) == Fl(RSub(a, b))
FMul(a, b) == Fl(RMul(a, b))

\* Values of a float Series: 1, 1.25, 7
FloatVals == {<<1, 1>>, <<5, 4>>, <<7, 1>>}

\* alpha = 2.0 / (window + 1.0)
AlphaFl(win) == Fl(Rat(2, win + 1))

\* rolling(window, min_periods=1).mean() at position win, the only position
\* of sma_initial the loop reads: the window holds s[1..win], added one by
\* one to a compensated (Kahan) sum; a window of equal values gives that
\* value.
RECURSIVE KahanSum(_, _)
KahanSum(s, n) ==
    IF n = 0 THEN [sum_x |-> OfInt(0), compensation |-> OfInt(0)]
    ELSE LET acc == KahanSum(s, n - 1)
             y == FSub(s[n], acc.compensation)
             tt == FAdd(acc.sum_x, y)
         IN  [sum_x |-> tt, compensation |-> FSub(FSub(tt, acc.sum_x), y)]

SeedMeanFl(s, win) ==
    IF \A i \in 1..win : s[i] = s[win] THEN s[win]
    ELSE Fl(RDiv(KahanSum(s, win).sum_x, win))

EmaStepFl(s, win, ema, i) ==
    IF i - 1 < win - 1 THEN s[i]
    ELSE IF i - 1 = win - 1 THEN SeedMeanFl(s, win)
    ELSE FAdd(FMul(FSub(s[i], ema[i - 1]), AlphaFl(win)), ema[i - 1])

RECURSIVE EmaLoopFl(_, _, _)
EmaLoopFl(s, win, n) ==
    IF n = 0 THEN <<>>
    ELSE LET ema == EmaLoopFl(s, win, n - 1)
         IN  Append(ema, EmaStepFl(s, win, ema, n))

\* calculate_ema for a window >= 1
calculate_ema_fl(s, win) == [kind |-> "ok", val |-> EmaLoopFl(s, win, Len(s))]

FloatInit ==
    /\ series \in SeqsUpTo(FloatVals, MaxLen)
    /\ window \in 1..MaxWindow
    /\ sma_result = NotCalled
    /\ ema_result = NotCalled
    /\ MainIdle
    /\ AnnIdle

CallEmaFl ==
    /\ ema_result = NotCalled
    /\ ema_result' = calculate_ema_fl(series, window)
    /\ UNCHANGED <<series, window, sma_result, mainVars, annVars>>

FloatNext == CallEmaFl

SpecFloat == FloatInit /\ [][FloatNext]_vars

-----------------------------------------------------------------------------
(* write_ticker_to_csv called directly on a frame and a ticker *)

\* Columns a frame given to write_ticker_to_csv may or may not have; it
\* always has the date index and open, high, low, close, volume.
OptionalColumns == {"ticker", "adjclose", "SMA_10", "SMA_20", "EMA_10", "EMA_20"}

FrameRow(n, c, optional) ==
    LET base == [date |-> MonthEnd(n), open |-> OfInt(3), high |-> OfInt(6),
                 low |-> OfInt(2), close |-> c, volume |-> 10]
    IN  [f \in (DOMAIN base) \cup optional |->
            IF f \in DOMAIN base THEN base[f]
            ELSE IF f = "ticker" THEN EXPECTED_TICKERS[1] ELSE c]

WriteInit ==
    /\ AvgIdle
    /\ MainIdle
    /\ frame = NoFrame
    /\ annotated = NoFrame
    /\ ann_pc = "caller"

\* The caller builds the frame row by row; all rows have the same columns.
AddFrameRow ==
    /\ ann_pc = "caller"
    /\ Len(frame) < MaxWriteRows
    /\ \E c \in CloseVals, optional \in SUBSET OptionalColumns :
         /\ frame # <<>> => optional = (DOMAIN frame[1]) \cap OptionalColumns
         /\ frame' = Append(frame, FrameRow(Len(frame) + 1, c, optional))
    /\ UNCHANGED <<avgVars, mainVars, annotated, ann_pc>>

\* write_ticker_to_csv(frame, ticker, output_dir) returns normally.
CallWrite ==
    /\ ann_pc = "caller"
    /\ frame # <<>>
    /\ \E ticker \in Tickers :
         out_dir' = [out_dir EXCEPT ![ticker] = write_ticker_to_csv(frame, ticker)]
    /\ ann_pc' = "written"
    /\ UNCHANGED <<avgVars, csv_file, pc, exit_status, df_daily, df_monthly,
                   df_monthly_final, wi, created_files, warnings, stage_log,
                   frame, annotated>>

WriteNext == AddFrameRow \/ CallWrite

SpecWrite == WriteInit /\ [][WriteNext]_vars

-----------------------------------------------------------------------------
(* Averaging engine called directly on a Series and a window *)

AvgInit ==
    /\ series \in SeqsUpTo(PriceVals, MaxLen)
    /\ window \in Windows
    /\ sma_result = NotCalled
    /\ ema_result = NotCalled
    /\ MainIdle
    /\ AnnIdle

CallSma ==
    /\ sma_result = NotCalled
    /\ sma_result' = calculate_sma(series, window)
    /\ UNCHANGED <<series, window, ema_result, mainVars, annVars>>

CallEma ==
    /\ ema_result = NotCalled
    /\ ema_result' = calculate_ema(series, window)
    /\ UNCHANGED <<series, window, sma_result, mainVars, annVars>>

AvgNext == CallSma \/ CallEma

SpecAvg == AvgInit /\ [][AvgNext]_vars

-----------------------------------------------------------------------------
(* Properties of a run of main *)

StageDone(stage) == \E i \in 1..Len(stage_log) : stage_log[i] = [stage |-> stage, outcome |-> "ok"]
StageFailed(stage) == \E i \in 1..Len(stage_log) : stage_log[i] = [stage |-> stage, outcome |-> "error"]
Terminated == pc \in {"done", "exited"}

\* The daily rows of the input that belong to ticker tk and month m
Group(tk, m) == {r \in csv_file.rows : r.ticker = tk /\ MonthOf(r.date) = m}
Earliest(G) == CHOOSE r \in G : \A q \in G : ~DateLt(q.date, r.date)
Latest(G) == CHOOSE r \in G : \A q \in G : ~DateLt(r.date, q.date)

RECURSIVE VolumeOf(_)
VolumeOf(G) ==
    IF G = {} THEN 0 ELSE LET r == CHOOSE q \in G : TRUE IN r.volume + VolumeOf(G \ {r})

\* C1: every monthly row emitted by aggregate_monthly_ohlc has the open of
\* the chronologically first daily row of its (ticker, month) group, the
\* close and adjclose of the chronologically last one, the maximum high, the
\* minimum low and the sum of volume of the group.
C1_MonthlyRowSummarizesGroup ==
    StageDone("aggregate") =>
        \A i \in 1..Len(df_monthly) :
            LET r == df_monthly[i]
                G == Group(r.ticker, MonthOf(r.date))
            IN  /\ G # {}
                /\ r.open = Earliest(G).open
                /\ r.close = Latest(G).close
                /\ r.adjclose = Latest(G).adjclose
                /\ \A q \in G : RLeq(q.high, r.high) /\ RLeq(r.low, q.low)
                /\ \E q \in G : q.high = r.high
                /\ \E q \in G : q.low = r.low
                /\ r.volume = VolumeOf(G)

\* A monthly row made of two daily rows whose first and last rows differ.
C1_Witness ==
    /\ StageDone("aggregate")
    /\ \E i \in 1..Len(df_monthly) :
         LET r == df_monthly[i]
             G == Group(r.ticker, MonthOf(r.date))
         IN  /\ Cardinality(G) = 2
             /\ r.open # Latest(G).open
             /\ r.close # Earliest(G).close
             /\ r.high # Latest(G).high

MonthlyRowsFor(tk, m) ==
    {i \in 1..Len(df_monthly) : df_monthly[i].ticker = tk /\ MonthOf(df_monthly[i].date) = m}

\* C4: aggregate_monthly_ohlc emits exactly one row for each (ticker, month)
\* that has a daily row and none for a (ticker, month) without daily rows,
\* also for a month between the ticker's first and last traded month.
C4_OneRowPerTradedMonth ==
    StageDone("aggregate") =>
        \A tk \in Tickers, m \in 1..MaxMonth :
            Cardinality(MonthlyRowsFor(tk, m)) = IF Group(tk, m) # {} THEN 1 ELSE 0

\* A ticker traded in two months with an untraded month in between.
C4_Witness ==
    /\ StageDone("aggregate")
    /\ \E tk \in Tickers, m \in 2..(MaxMonth - 1) :
         /\ Group(tk, m) = {}
         /\ Group(tk, m - 1) # {}
         /\ Group(tk, m + 1) # {}
         /\ MonthlyRowsFor(tk, m) = {}
         /\ MonthlyRowsFor(tk, m + 1) # {}

ExpectedSet == {EXPECTED_TICKERS[i] : i \in 1..Len(EXPECTED_TICKERS)}
InputTickers == {r.ticker : r \in csv_file.rows}
MissingExpected == ExpectedSet \ InputTickers
NothingWritten == \A tk \in Tickers : out_dir[tk] = NoFile

\* C6 as stated: a run whose input lacks an expected ticker (and holds
\* another one) skips it, writes the files of the tickers present and ends
\* with exit status 0.
C6_MissingTickerSkipped ==
    (Terminated /\ StageDone("load") /\ MissingExpected # {} /\ InputTickers # {}
        /\ ~StageFailed("aggregate") /\ ~StageFailed("indicators") /\ ~StageFailed("write")) =>
        /\ exit_status = 0
        /\ \A tk \in ExpectedSet \cap InputTickers : out_dir[tk] # NoFile

\* C6 amended: a run of main whose input lacks an expected ticker fails in
\* validate_tickers: it ends with exit status 1 right after step 2, nothing
\* is aggregated or annotated and no file is written.
C6_MissingTickerFailsValidation ==
    (StageDone("load") /\ MissingExpected # {} /\ pc # "validate") =>
        /\ pc = "exited"
        /\ exit_status = 1
        /\ stage_log = <<[stage |-> "load", outcome |-> "ok"],
                         [stage |-> "validate", outcome |-> "error"]>>
        /\ df_monthly = NoFrame
        /\ df_monthly_final = NoFrame
        /\ NothingWritten

\* A finished run whose input holds one expected ticker and lacks the other.
C6_Witness ==
    /\ Terminated
    /\ StageDone("load")
    /\ MissingExpected # {}
    /\ InputTickers # {}
    /\ exit_status = 1

StageOrder == <<"load", "validate", "aggregate", "indicators", "write">>

\* C7: main runs load, validate, aggregate, indicators, write in that order;
\* a failing step ends the run with exit status 1 and no later step runs;
\* exit status 0 is reached only when all five steps succeeded; no file is
\* written unless the first four steps succeeded.
C7_StagesInOrderFailFast ==
    /\ Len(stage_log) <= Len(StageOrder)
    /\ \A i \in 1..Len(stage_log) :
         /\ stage_log[i].stage = StageOrder[i]
         /\ i < Len(stage_log) => stage_log[i].outcome = "ok"
    /\ (\E i \in 1..Len(stage_log) : stage_log[i].outcome = "error")
         <=> (pc = "exited" /\ exit_status = 1)
    /\ exit_status \in {NoExit, 0, 1}
    /\ exit_status = 0 <=> pc = "done"
    /\ exit_status = 0 =>
         /\ Len(stage_log) = Len(StageOrder)
         /\ \A i \in 1..Len(stage_log) : stage_log[i].outcome = "ok"
    /\ ~NothingWritten =>
         /\ Len(stage_log) = Len(StageOrder)
         /\ \A i \in 1..(Len(stage_log) - 1) : stage_log[i].outcome = "ok"
    /\ df_monthly # NoFrame => StageDone("validate")
    /\ df_monthly_final # NoFrame => StageDone("aggregate")

\* A run that failed in the third step: it ended with status 1, the later
\* steps never ran and nothing was written.
C7_Witness ==
    /\ pc = "exited"
    /\ exit_status = 1
    /\ Len(stage_log) = 3
    /\ stage_log[3] = [stage |-> "aggregate", outcome |-> "error"]
    /\ df_monthly_final = NoFrame
    /\ NothingWritten

\* The rows write_ticker_to_csv is given for ticker tk, without the ticker
\* column
ExpectedFileRows(tk) ==
    LET rows == SelectSeq(df_monthly_final, LAMBDA r : r.ticker = tk)
    IN  [i \in 1..Len(rows) |-> [c \in (DOMAIN rows[i]) \ {"ticker"} |-> rows[i][c]]]

WriteFailedAt(k) ==
    /\ pc = "exited"
    /\ stage_log # <<>>
    /\ stage_log[Len(stage_log)] = [stage |-> "write", outcome |-> "error"]
    /\ wi = k

\* C8: tickers are written one at a time in list order; when the write of
\* the k-th ticker fails, the files of the tickers before it stay complete
\* on disk, no later ticker has a file, and the run exits with status 1.
C8_NoRollbackOnWriteFailure ==
    /\ pc = "partition" =>
         \A j \in 1..Len(EXPECTED_TICKERS) :
            (out_dir[EXPECTED_TICKERS[j]] # NoFile) <=> (j < wi)
    /\ \A k \in 1..Len(EXPECTED_TICKERS) :
         WriteFailedAt(k) =>
            /\ exit_status = 1
            /\ \A j \in 1..(k - 1) :
                 LET f == out_dir[EXPECTED_TICKERS[j]]
                 IN  /\ f # NoFile
                     /\ f.complete
                     /\ f.rows = ExpectedFileRows(EXPECTED_TICKERS[j])
            /\ \A j \in (k + 1)..Len(EXPECTED_TICKERS) : out_dir[EXPECTED_TICKERS[j]] = NoFile

\* The write of the second ticker failed after the first file was written.
C8_Witness ==
    /\ WriteFailedAt(2)
    /\ out_dir[EXPECTED_TICKERS[1]] # NoFile
    /\ out_dir[EXPECTED_TICKERS[1]].complete
    /\ out_dir[EXPECTED_TICKERS[2]] # NoFile
    /\ ~out_dir[EXPECTED_TICKERS[2]].complete

RECURSIVE TotalFileRows(_)
TotalFileRows(S) ==
    IF S = {} THEN 0
    ELSE LET tk == CHOOSE x \in S : TRUE
         IN  (IF out_dir[tk] = NoFile THEN 0 ELSE Len(out_dir[tk].rows)) + TotalFileRows(S \ {tk})

\* C9: when partition_and_write_results has gone through a tickers list
\* naming the N tickers of the monthly frame, there are N files, the file of
\* each ticker holds exactly that ticker's rows, and the files together hold
\* every monthly row once.
C9_PartitionExact ==
    pc = "done" =>
        /\ Len(created_files) = Cardinality(TickersIn(df_monthly_final))
        /\ {tk \in Tickers : out_dir[tk] # NoFile} = TickersIn(df_monthly_final)
        /\ \A tk \in TickersIn(df_monthly_final) :
             /\ out_dir[tk].complete
             /\ out_dir[tk].rows = ExpectedFileRows(tk)
        /\ TotalFileRows(Tickers) = Len(df_monthly_final)

\* Two files written, one of them with more than one monthly row.
C9_Witness ==
    /\ pc = "done"
    /\ Len(created_files) = 2
    /\ \E tk \in Tickers : Len(out_dir[tk].rows) >= 2
    /\ TotalFileRows(Tickers) = Len(df_monthly_final)

\* The daily rows of ticker tk in the input file
OwnRecords(tk) == {r \in csv_file.rows : r.ticker = tk}

\* The annotated monthly frame main builds (steps 1, 3 and 4) from an input
\* file holding the given rows.
RunOutput(rows) ==
    concat(IndicatorFrames(aggregate_monthly_ohlc(sort_values(rows)), Len(EXPECTED_TICKERS)))

\* The inputs of the runs this run is compared with: ticker tk's records as
\* they are, every other ticker's records replaced by one arbitrary row.
OtherInputs(tk) ==
    {OwnRecords(tk) \cup {other} : other \in {r \in DailyRows : r.ticker # tk}}

\* C11: the annotated monthly rows of a ticker depend only on that ticker's
\* own daily rows: a second run whose input agrees with this run's on the
\* ticker's rows and differs in the rows of the other tickers builds the same
\* annotated rows (all fields, indicators included) for the ticker.
C11_NoCrossInstrumentInteraction ==
    pc = "write" =>
        \A tk \in Tickers :
            LET mine == RowsOfTicker(df_monthly_final, tk)
            IN  \A rows \in OtherInputs(tk) : RowsOfTicker(RunOutput(rows), tk) = mine

\* A run over two tickers, each with monthly rows of its own, one of them
\* with two months whose indicators differ from the close.
C11_Witness ==
    /\ pc = "write"
    /\ \A tk \in Tickers : RowsOfTicker(df_monthly_final, tk) # <<>>
    /\ \E tk \in Tickers :
         LET mine == RowsOfTicker(df_monthly_final, tk)
         IN  /\ Len(mine) >= 2
             /\ mine[2].SMA_10 # mine[2].close
             /\ \E rows \in OtherInputs(tk) :
                  rows # csv_file.rows

\* The rows of each ticker are contiguous in df and their dates strictly
\* increase.
GroupedThenChronological(df) ==
    \A i \in 1..Len(df), j \in 1..Len(df) :
        (i < j /\ df[i].ticker = df[j].ticker) =>
            /\ DateLt(df[i].date, df[j].date)
            /\ \A k \in i..j : df[k].ticker = df[i].ticker

InputDates == {r.date : r \in csv_file.rows}

\* C13: the frame returned by aggregate_monthly_ohlc and the concatenated
\* annotated frame built by main keep the rows of one ticker together, in
\* strictly ascending date order; the date of a monthly row is the last
\* calendar day of the month of the daily rows it summarizes, whether or not
\* the input has a row on that day.
C13_GroupedChronologicalMonthEnds ==
    /\ StageDone("aggregate") =>
         /\ GroupedThenChronological(df_monthly)
         /\ \A i \in 1..Len(df_monthly) :
              LET r == df_monthly[i]
              IN  /\ r.date[2] = DaysInMonth(r.date[1])
                  /\ \E q \in OwnRecords(r.ticker) : q.date[1] = r.date[1]
                  /\ \A q \in OwnRecords(r.ticker) :
                       q.date[1] = r.date[1] => ~DateLt(r.date, q.date)
    /\ StageDone("indicators") =>
         /\ GroupedThenChronological(df_monthly_final)
         /\ Len(df_monthly_final) = Len(df_monthly)
         /\ \A i \in 1..Len(df_monthly_final) :
              /\ df_monthly_final[i].ticker = df_monthly[i].ticker
              /\ df_monthly_final[i].date = df_monthly[i].date

\* Both frames are built; one ticker has rows of two months followed by the
\* rows of the other ticker, and a monthly row carries a date on which the
\* input has no row.
C13_Witness ==
    /\ StageDone("indicators")
    /\ \E i \in 1..(Len(df_monthly_final) - 2) :
         /\ df_monthly_final[i].ticker = df_monthly_final[i + 1].ticker
         /\ df_monthly_final[i + 1].ticker # df_monthly_final[i + 2].ticker
         /\ DateLt(df_monthly_final[i + 2].date, df_monthly_final[i + 1].date)
    /\ \E i \in 1..Len(df_monthly) : df_monthly[i].date \notin InputDates

\* The candidate monthly rows that reach the dropna filter in this run
Candidates == GroupbyResample(df_daily, Cardinality(Tickers))

MissingOHLC(r) == IsNaN(r.open) \/ IsNaN(r.high) \/ IsNaN(r.low) \/ IsNaN(r.close)

\* The input is well formed: no price of a daily row is missing, and
\* df_daily has each ticker's rows in ascending date order.
WellFormedInput ==
    /\ \A r \in csv_file.rows : ~MissingOHLC(r)
    /\ \A i \in 1..Len(df_daily), j \in 1..Len(df_daily) :
         (i < j /\ df_daily[i].ticker = df_daily[j].ticker) =>
             DateLt(df_daily[i].date, df_daily[j].date)

\* The (ticker, month) pairs without daily rows that lie between the
\* ticker's first and last month with daily rows
GapMonths ==
    {p \in Tickers \X (1..MaxMonth) :
        /\ Group(p[1], p[2]) = {}
        /\ \E a \in 1..(p[2] - 1) : Group(p[1], a) # {}
        /\ \E b \in (p[2] + 1)..MaxMonth : Group(p[1], b) # {}}

ConsistentOHLC(r) ==
    /\ RLeq(r.low, r.open) /\ RLeq(r.open, r.high)
    /\ RLeq(r.low, r.close) /\ RLeq(r.close, r.high)

-----------------------------------------------------------------------------
(* Properties of write_ticker_to_csv *)

ElevenColumns ==
    <<"date", "open", "high", "low", "close", "adjclose", "volume",
      "SMA_10", "SMA_20", "EMA_10", "EMA_20">>

FileNameOf(tk) == <<"result_", tk, ".csv">>

\* C15 as stated: every file written by write_ticker_to_csv for ticker t is
\* named result_<t>.csv and holds exactly the eleven columns date, open,
\* high, low, close, adjclose, volume, SMA_10, SMA_20, EMA_10, EMA_20 in
\* that order, whatever frame was passed.
C15_AlwaysElevenColumns ==
    \A tk \in Tickers :
        (out_dir[tk] # NoFile /\ out_dir[tk].complete) =>
            /\ out_dir[tk].name = FileNameOf(tk)
            /\ out_dir[tk].columns = ElevenColumns

\* C15 amended: every file written by write_ticker_to_csv for ticker t is
\* named result_<t>.csv and holds, in the order of the eleven-column list,
\* those of the eleven columns that the frame has and no other column (no
\* ticker column); it holds exactly the eleven columns when the frame has
\* all of them.  Each row of the file is the frame's row cut to these
\* columns.
C15_NamedFileWithAvailableColumns ==
    ann_pc = "written" =>
        \A tk \in Tickers :
            out_dir[tk] # NoFile =>
                LET f == out_dir[tk]
                    has == DOMAIN frame[1]
                IN  /\ f.name = FileNameOf(tk)
                    /\ f.columns = SelectSeq(ElevenColumns, LAMBDA c : c \in has)
                    /\ \A i \in 1..Len(f.columns) : f.columns[i] # "ticker"
                    /\ (\A i \in 1..Len(ElevenColumns) : ElevenColumns[i] \in has)
                          <=> f.columns = ElevenColumns
                    /\ Len(f.rows) = Len(frame)
                    /\ \A i \in 1..Len(frame) :
                         /\ DOMAIN f.rows[i] = {f.columns[j] : j \in 1..Len(f.columns)}
                         /\ \A c \in DOMAIN f.rows[i] : f.rows[i][c] = frame[i][c]

\* A frame with a ticker column and without the EMA columns was written:
\* the file has nine columns.
C15_Witness ==
    /\ ann_pc = "written"
    /\ Len(frame) = 2
    /\ "ticker" \in DOMAIN frame[1]
    /\ "SMA_10" \in DOMAIN frame[1]
    /\ "EMA_10" \notin DOMAIN frame[1]
    /\ \E tk \in Tickers :
         /\ out_dir[tk] # NoFile
         /\ Len(out_dir[tk].columns) = 9

-----------------------------------------------------------------------------
(* Properties of the annotator *)

RECURSIVE SumSeq(_)
SumSeq(s) == IF s = <<>> THEN OfInt(0) ELSE RAdd(Head(s), SumSeq(Tail(s)))

\* Arithmetic mean of s[lo..hi]
MeanOf(s, lo, hi) == RDiv(SumSeq(SubSeq(s, lo, hi)), hi - lo + 1)

\* The close prices of the frame in date order: the dates of the frame are
\* the month ends of months 1..n, each once.
ClosesByDate ==
    AsSeq([m \in 1..Len(frame) |->
              frame[CHOOSE i \in 1..Len(frame) : frame[i].date = MonthEnd(m)].close])

\* C10: add_technical_indicators returns the rows of its input in ascending
\* date order, whatever order they came in, with indicator values that
\* depend only on the date-ordered close prices (not on indicator columns
\* already present), and annotating its output again returns the same frame.
C10_AnnotationPureAndIdempotent ==
    ann_pc \in {"annotated", "reannotated"} =>
        LET closes == ClosesByDate
            sma10 == calculate_sma(closes, SMA_SHORT).val
            sma20 == calculate_sma(closes, SMA_LONG).val
            ema10 == calculate_ema(closes, EMA_SHORT).val
            ema20 == calculate_ema(closes, EMA_LONG).val
        IN  /\ Len(annotated) = Len(frame)
            /\ \A m \in 1..Len(annotated) :
                 LET r == annotated[m]
                 IN  /\ r.date = MonthEnd(m)
                     /\ r.close = closes[m]
                     /\ r.SMA_10 = sma10[m]
                     /\ r.SMA_20 = sma20[m]
                     /\ r.EMA_10 = ema10[m]
                     /\ r.EMA_20 = ema20[m]
            /\ ann_pc = "reannotated" => annotated = frame

\* A frame longer than the short window, given out of date order, was
\* annotated, and its EMA_10 went past the seed.
C10_Witness ==
    /\ ann_pc = "annotated"
    /\ Len(frame) > EMA_SHORT
    /\ \E i \in 1..(Len(frame) - 1) : DateLt(frame[i + 1].date, frame[i].date)
    /\ annotated[Len(frame)].EMA_10 # annotated[Len(frame)].close
    /\ annotated[Len(frame)].EMA_10 # annotated[Len(frame)].SMA_10

\* The growing-window rule: the mean of the trailing min(i, w) closes.
GrowingWindowMean(closes, w, i) == MeanOf(closes, i - Min(i, w) + 1, i)

\* The raw-value / seed / recurrence rule, given the value of the position
\* before (prev).
PartialSeedRule(closes, w, i, prev) ==
    IF i < w THEN closes[i]
    ELSE IF i = w THEN MeanOf(closes, 1, w)
    ELSE RAdd(RMul(RSub(closes[i], prev), Rat(2, w + 1)), prev)

\* C12: add_technical_indicators succeeds on a monthly frame of any length
\* n >= 1 with non-null closes, also for n < 10 and 10 <= n < 20, and every
\* row of the result has non-null SMA_10, SMA_20, EMA_10 and EMA_20, the SMAs
\* by the growing-window rule and the EMAs by the raw-value / seed rule.
C12_PartialHistoryDefined ==
    (ann_pc \in {"annotated", "reannotated"} /\ Len(frame) >= 1) =>
        LET closes == CloseOf(annotated)
        IN  /\ Len(annotated) = Len(frame)
            /\ \A i \in 1..Len(annotated) :
                 LET r == annotated[i]
                 IN  /\ ~IsNaN(r.SMA_10) /\ ~IsNaN(r.SMA_20)
                     /\ ~IsNaN(r.EMA_10) /\ ~IsNaN(r.EMA_20)
                     /\ r.SMA_10 = GrowingWindowMean(closes, SMA_SHORT, i)
                     /\ r.SMA_20 = GrowingWindowMean(closes, SMA_LONG, i)
                     /\ r.EMA_10 = PartialSeedRule(closes, EMA_SHORT, i,
                                        IF i > 1 THEN annotated[i - 1].EMA_10 ELSE NaN)
                     /\ r.EMA_20 = PartialSeedRule(closes, EMA_LONG, i,
                                        IF i > 1 THEN annotated[i - 1].EMA_20 ELSE NaN)

\* A frame of at least 10 and fewer than 20 months was annotated: the early
\* rows have a growing-window SMA_10, EMA_10 was seeded at the tenth row and
\* EMA_20 is still the raw close.
C12_Witness ==
    /\ ann_pc = "annotated"
    /\ Len(frame) >= SMA_SHORT
    /\ Len(frame) < SMA_LONG
    /\ annotated[2].SMA_10 # annotated[2].close
    /\ annotated[EMA_SHORT].EMA_10 # annotated[EMA_SHORT].close
    /\ annotated[Len(frame)].EMA_20 = annotated[Len(frame)].close
    /\ annotated[Len(frame)].SMA_20 # annotated[Len(frame)].close

-----------------------------------------------------------------------------
(* Properties of the averaging engine *)

\* C2: for window W > 0, calculate_ema(S, W) has the length of S; position
\* i < W-1 holds the raw input, position W-1 the mean of S[0..W-1], and each
\* later position (S[i] - out[i-1]) * 2/(W+1) + out[i-1].  (Positions below
\* are 1-based: the code's index i is position i+1.)
C2_EmaSeedingPolicy ==
    (ema_result # NotCalled /\ window > 0) =>
        /\ ema_result.kind = "ok"
        /\ Len(ema_result.val) = Len(series)
        /\ \A i \in 1..Len(series) :
             LET out == ema_result.val
             IN  /\ i < window => out[i] = series[i]
                 /\ i = window => out[i] = MeanOf(series, 1, window)
                 /\ i > window =>
                      out[i] = RAdd(RMul(RSub(series[i], out[i - 1]),
                                         Rat(2, window + 1)),
                                    out[i - 1])

\* A run in which all three branches of the policy were taken and the seed
\* differs from the raw value.
C2_Witness ==
    /\ ema_result # NotCalled
    /\ window > 1
    /\ Len(series) > window
    /\ ema_result.kind = "ok"
    /\ ema_result.val[window] # series[window]
    /\ ema_result.val[Len(series)] # series[Len(series)]

\* C3: for window W > 0, calculate_sma(S, W) has the length of S and each
\* position holds the mean of the trailing min(i+1, W) values ending there.
C3_SmaTrailingMean ==
    (sma_result # NotCalled /\ window > 0) =>
        /\ sma_result.kind = "ok"
        /\ Len(sma_result.val) = Len(series)
        /\ \A i \in 1..Len(series) :
             sma_result.val[i] = MeanOf(series, i - Min(i, window) + 1, i)

\* A run with both a growing window and a full window that dropped a value.
C3_Witness ==
    /\ sma_result # NotCalled
    /\ window > 1
    /\ Len(series) > window
    /\ sma_result.kind = "ok"
    /\ sma_result.val[1] # sma_result.val[2]
    /\ sma_result.val[Len(series)] # MeanOf(series, 1, Len(series))

\* The error kind pandas raises for a bad rolling window; Python's
\* counterpart of InvalidArgument.
InvalidArgument == "ValueError"

\* C5: for every window W <= 0 both calculate_sma and calculate_ema fail
\* with the one InvalidArgument error kind, whichever non-positive value
\* was passed.
C5_NonPositiveWindowInvalidArgument ==
    window <= 0 =>
        /\ sma_result # NotCalled => sma_result.kind = InvalidArgument
        /\ ema_result # NotCalled => ema_result.kind = InvalidArgument

\* The least and the greatest of s[lo..hi]
LeastOf(s, lo, hi) == SeqMin(SubSeq(s, lo, hi))
GreatestOf(s, lo, hi) == SeqMax(SubSeq(s, lo, hi))

\* C16: for every window W >= 1 and non-empty Series S, each value of
\* calculate_ema(S, W) lies between the least and the greatest of S up to
\* that position, each value of calculate_sma(S, W) lies between the least
\* and the greatest of its trailing window, and for W = 1 both return S
\* unchanged.
C16_BoundedByInputExtremes ==
    (window >= 1 /\ series # <<>>) =>
        /\ ema_result # NotCalled =>
             /\ ema_result.kind = "ok"
             /\ \A i \in 1..Len(series) :
                  /\ RLeq(LeastOf(series, 1, i), ema_result.val[i])
                  /\ RLeq(ema_result.val[i], GreatestOf(series, 1, i))
             /\ window = 1 => ema_result.val = series
        /\ sma_result # NotCalled =>
             /\ sma_result.kind = "ok"
             /\ \A i \in 1..Len(series) :
                  /\ RLeq(LeastOf(series, i - Min(i, window) + 1, i), sma_result.val[i])
                  /\ RLeq(sma_result.val[i], GreatestOf(series, i - Min(i, window) + 1, i))
             /\ window = 1 => sma_result.val = series

=============================================================================
